---- MODULE Spec2Model ----
(***************************************************************************)
(* Logseq Namespace Injector (plugin v2.0): the rule engine (marker        *)
(* detection, exclusion, namespace generation), single-note injection on   *)
(* the creation hook, the batch processor                                  *)
(* scan -> confirm -> backup -> apply -> rollback, its confirmation modal, *)
(* the preview and the settings tab.                                       *)
(*                                                                         *)
(* Strings are sequences of one-character strings, so that the regular     *)
(* expressions and String.replace of the source are computed, not assumed. *)
(***************************************************************************)
EXTENDS Integers, Sequences, FiniteSets, TLC

VARIABLES
    files,          \* the files the host may hold in this behaviour
    vault,          \* file -> content held by the host (Absent: not created)
    settings,       \* this.settings
    hookRegistered, \* the 'create' listener was registered by onload
    inj,            \* file -> the injectNamespace call scheduled for it
    lastOutcome,    \* history: how the last injectNamespace call ended
    phase,          \* position of the batch run (processExistingFiles)
    filesToProcess, \* processExistingFiles: filesToProcess
    scanIdx,        \* processExistingFiles: position of the analysis loop
    plannedChanges, \* processExistingFiles / executeAtomicOperation
    backups,        \* executeAtomicOperation: backups
    applyIdx,       \* executeAtomicOperation: i (0-based)
    restoreIdx,     \* restoreFromBackups: position of the loop (1-based)
    ioLog,          \* history: host reads and writes issued by the batch run
    preBatch,       \* history: the vault when the batch run started, kept
                    \* until something other than the run writes to the vault
    modal,          \* the BulkOperationModal of the batch run
    scanSettings,   \* history: this.settings when the batch run started
    preview,        \* the previewChanges call and its notice
    storage,        \* the host's storage: this.app.vault and its adapter
    vaultNotice     \* history: operation -> the last notice validateVaultState
                    \* showed when that operation called it

vars == <<files, vault, settings, hookRegistered, inj, lastOutcome, phase,
          filesToProcess, scanIdx, plannedChanges, backups, applyIdx, restoreIdx, ioLog,
          preBatch, modal, scanSettings, preview, storage, vaultNotice>>

(***************************************************************************)
(* Bounds                                                                  *)
(***************************************************************************)
\* files that do not exist yet when the plugin loads
MaxCreates == 1
\* number of parts a namespace format is put together from
MaxParts == 2
\* notes of the large vault
MaxNotes == 102
\* notes of the large vault that hold a namespace marker already
MaxMarked == 2
\* notes of the vault on which whole batch runs are followed
MaxBatchNotes == 3
\* notes of the vault on which previews are followed
MaxPreviewNotes == 12

(***************************************************************************)
(* Characters and string primitives of the JavaScript runtime              *)
(***************************************************************************)
UpperCase == <<"A", "B", "C", "D", "E", "F", "G", "H", "I", "J", "K", "L", "M",
               "N", "O", "P", "Q", "R", "S", "T", "U", "V", "W", "X", "Y", "Z">>

LowerCase == <<"a", "b", "c", "d", "e", "f", "g", "h", "i", "j", "k", "l", "m",
               "n", "o", "p", "q", "r", "s", "t", "u", "v", "w", "x", "y", "z">>

\* upper-case letter -> its lower-case letter
LowerOf ==
    [c \in {UpperCase[k] : k \in 1..26} |->
        LowerCase[CHOOSE k \in 1..26 : UpperCase[k] = c]]

\* String.prototype.toLowerCase, one character
toLowerCaseChar(c) == IF c \in DOMAIN LowerOf THEN LowerOf[c] ELSE c

\* String.prototype.toLowerCase
toLowerCase(s) == [k \in 1..Len(s) |-> toLowerCaseChar(s[k])]

\* the regular-expression class \s
IsWhitespace(c) == c \in {" ", "\t", "\n", "\r", "\f"}

\* the characters the regular-expression atom . does not match, and at which
\* ^ and $ match under the m flag
IsLineTerminator(c) == c \in {"\n", "\r"}

\* pat occurs in s at position k (1-based)
OccursAt(s, pat, k) ==
    /\ k >= 1
    /\ k + Len(pat) - 1 <= Len(s)
    /\ \A j \in 1..Len(pat) : s[k + j - 1] = pat[j]

\* String.prototype.indexOf, 1-based, 0 when pat does not occur
indexOf(s, pat) ==
    IF \E k \in 1..(Len(s) + 1) : OccursAt(s, pat, k)
    THEN CHOOSE k \in 1..(Len(s) + 1) :
            /\ OccursAt(s, pat, k)
            /\ \A j \in 1..(k - 1) : ~OccursAt(s, pat, j)
    ELSE 0

\* String.prototype.includes
includes(s, pat) == \E k \in 1..(Len(s) + 1) : OccursAt(s, pat, k)

\* GetSubstitution of String.prototype.replace with a string pattern: the
\* replacement text is scanned for $$, $&, $` and $'
RECURSIVE GetSubstitution(_, _, _, _)
GetSubstitution(repl, matched, before, after) ==
    IF Len(repl) = 0 THEN <<>>
    ELSE IF repl[1] = "$" /\ Len(repl) >= 2 /\ repl[2] \in {"$", "&", "`", "'"}
    THEN (CASE repl[2] = "$" -> <<"$">>
            [] repl[2] = "&" -> matched
            [] repl[2] = "`" -> before
            [] repl[2] = "'" -> after)
         \o GetSubstitution(SubSeq(repl, 3, Len(repl)), matched, before, after)
    ELSE <<repl[1]>> \o GetSubstitution(Tail(repl), matched, before, after)

\* String.prototype.replace(pat, repl) with a string pattern: the first
\* occurrence only
replace(s, pat, repl) ==
    LET k == indexOf(s, pat) IN
    IF k = 0 THEN s
    ELSE LET before == SubSeq(s, 1, k - 1)
             after  == SubSeq(s, k + Len(pat), Len(s))
         IN before \o GetSubstitution(repl, pat, before, after) \o after

\* replace(/\/+/g, '/')
RECURSIVE replaceSlashRuns(_)
replaceSlashRuns(s) ==
    IF Len(s) < 2 THEN s
    ELSE IF s[1] = "/" /\ s[2] = "/" THEN replaceSlashRuns(Tail(s))
    ELSE <<s[1]>> \o replaceSlashRuns(Tail(s))

\* the same replacement without the alternative \/$
replaceEdgeSlashes_leadingOnly(s) ==
    IF Len(s) > 0 /\ s[1] = "/" THEN Tail(s) ELSE s

\* replace(/^\/|\/$/g, '')
replaceEdgeSlashes(s) ==
    LET a == IF Len(s) > 0 /\ s[1] = "/" THEN Tail(s) ELSE s
    IN IF Len(a) > 0 /\ a[Len(a)] = "/" THEN SubSeq(a, 1, Len(a) - 1) ELSE a

(***************************************************************************)
(* String literals of the source                                           *)
(***************************************************************************)
NamespaceWord == <<"n", "a", "m", "e", "s", "p", "a", "c", "e">>
NamespacePrefix == <<"n", "a", "m", "e", "s", "p", "a", "c", "e", ":", ":", " ">>
PathPlaceholder == <<"{", "p", "a", "t", "h", "}">>
NamePlaceholder == <<"{", "n", "a", "m", "e", "}">>
MdExtension == <<"m", "d">>

DEFAULT_SETTINGS ==
    [namespaceFormat |-> PathPlaceholder,
     excludePatterns |-> << <<"t", "e", "m", "p", "l", "a", "t", "e", "s", "/">>,
                            <<".", "t", "r", "a", "s", "h", "/">>,
                            <<"a", "r", "c", "h", "i", "v", "e", "/">> >>,
     autoProcessNewFiles |-> TRUE,
     batchSize |-> 50]

(***************************************************************************)
(* The files of the host (TFile): parent.path, basename, extension         *)
(***************************************************************************)
\* the content of a file the host does not hold (not a string of characters)
Absent == <<"ABSENT">>

NamedFile ==
    [notes |-> [parent |-> <<"P", "r", "o", "j", "e", "c", "t", "s", "/",
                             "M", "y", "P", "r", "o", "j", "e", "c", "t">>,
                basename |-> <<"n", "o", "t", "e", "s">>,
                extension |-> MdExtension],
     m     |-> [parent |-> <<"B">>,
                basename |-> <<"m">>,
                extension |-> MdExtension],
     n     |-> [parent |-> <<"A">>,
                basename |-> <<"n">>,
                extension |-> MdExtension],
     r     |-> [parent |-> <<>>,
                basename |-> <<"r">>,
                extension |-> MdExtension],
     t     |-> [parent |-> <<"T", "e", "m", "p", "l", "a", "t", "e", "s">>,
                basename |-> <<"t">>,
                extension |-> MdExtension],
     d     |-> [parent |-> <<"a", "$", "&">>,
                basename |-> <<"d">>,
                extension |-> MdExtension],
     i     |-> [parent |-> <<"A">>,
                basename |-> <<"i">>,
                extension |-> <<"p", "n", "g">>]]

\* the notes of a large vault, in the order the host enumerates them; they
\* lie in the folder A and are named b001.md, b002.md, ...
BulkNotes ==
    <<"b001", "b002", "b003", "b004", "b005", "b006", "b007", "b008",
      "b009", "b010", "b011", "b012", "b013", "b014", "b015", "b016",
      "b017", "b018", "b019", "b020", "b021", "b022", "b023", "b024",
      "b025", "b026", "b027", "b028", "b029", "b030", "b031", "b032",
      "b033", "b034", "b035", "b036", "b037", "b038", "b039", "b040",
      "b041", "b042", "b043", "b044", "b045", "b046", "b047", "b048",
      "b049", "b050", "b051", "b052", "b053", "b054", "b055", "b056",
      "b057", "b058", "b059", "b060", "b061", "b062", "b063", "b064",
      "b065", "b066", "b067", "b068", "b069", "b070", "b071", "b072",
      "b073", "b074", "b075", "b076", "b077", "b078", "b079", "b080",
      "b081", "b082", "b083", "b084", "b085", "b086", "b087", "b088",
      "b089", "b090", "b091", "b092", "b093", "b094", "b095", "b096",
      "b097", "b098", "b099", "b100", "b101", "b102", "b103", "b104">>

Digit == <<"0", "1", "2", "3", "4", "5", "6", "7", "8", "9">>

BulkFile ==
    [f \in {BulkNotes[k] : k \in 1..Len(BulkNotes)} |->
        LET k == CHOOSE j \in 1..Len(BulkNotes) : BulkNotes[j] = f IN
        [parent |-> <<"A">>,
         basename |-> <<"b", Digit[(k \div 100) + 1], Digit[((k \div 10) % 10) + 1],
                        Digit[(k % 10) + 1]>>,
         extension |-> MdExtension]]

TFile == NamedFile @@ BulkFile

AllFiles == DOMAIN TFile

parentPath(f) == TFile[f].parent
basename(f) == TFile[f].basename
extension(f) == TFile[f].extension

\* TFile.path
path(f) ==
    (IF parentPath(f) = <<>> THEN <<>> ELSE parentPath(f) \o <<"/">>)
    \o basename(f) \o <<".">> \o extension(f)

(***************************************************************************)
(* Rule engine                                                             *)
(***************************************************************************)
\* position k of content is the start of a line (^ under the m flag)
IsLineStart(content, k) == k = 1 \/ IsLineTerminator(content[k - 1])

\* every character of content in a..(b-1) is whitespace
AllWhitespace(content, a, b) == \A k \in a..(b - 1) : IsWhitespace(content[k])

\* the same expression without the m flag: ^ and $ match at the two ends of
\* content only
hasNamespaceMetadata_noMultiline(content) ==
    \E q \in 1..Len(content) :
        /\ AllWhitespace(content, 1, q)
        /\ OccursAt(content, NamespaceWord, q)
        /\ \E s \in (q + 9)..Len(content) :
            /\ AllWhitespace(content, q + 9, s)
            /\ OccursAt(content, <<":", ":">>, s)
            /\ \E v \in (s + 2)..Len(content) :
                /\ AllWhitespace(content, s + 2, v)
                /\ \A k \in v..Len(content) : ~IsLineTerminator(content[k])

\* /^\s*namespace\s*::\s*.+$/m .test(content)
hasNamespaceMetadata(content) ==
    \E p \in 1..Len(content) : \E q \in p..Len(content) :
        /\ IsLineStart(content, p)
        /\ AllWhitespace(content, p, q)
        /\ OccursAt(content, NamespaceWord, q)
        /\ \E s \in (q + 9)..Len(content) :
            /\ AllWhitespace(content, q + 9, s)
            /\ OccursAt(content, <<":", ":">>, s)
            /\ \E v \in (s + 2)..Len(content) :
                /\ AllWhitespace(content, s + 2, v)
                /\ ~IsLineTerminator(content[v])

\* shouldExcludeFile comparing the path as it is written
shouldExcludeFile_caseSensitive(f, st) ==
    LET filePath == path(f) IN
    \E k \in 1..Len(st.excludePatterns) :
        includes(filePath, toLowerCase(st.excludePatterns[k]))

\* shouldExcludeFile
shouldExcludeFile(f, st) ==
    LET filePath == toLowerCase(path(f)) IN
    \E k \in 1..Len(st.excludePatterns) :
        includes(filePath, toLowerCase(st.excludePatterns[k]))

\* generateNamespace without the early return for an empty folder path
generateNamespace_noRootCheck(f, st) ==
    LET folderPath == parentPath(f)
        n1 == replace(st.namespaceFormat, PathPlaceholder, folderPath)
        n2 == replace(n1, NamePlaceholder, basename(f))
    IN replaceEdgeSlashes(replaceSlashRuns(n2))

\* generateNamespace
generateNamespace(f, st) ==
    LET folderPath == parentPath(f) IN
    IF folderPath = <<>> THEN <<>>
    ELSE LET n1 == replace(st.namespaceFormat, PathPlaceholder, folderPath)
             n2 == replace(n1, NamePlaceholder, basename(f))
         IN replaceEdgeSlashes(replaceSlashRuns(n2))

\* the template of the analysis loop with a single colon
plannedNewContent_oneColon(namespace, content) ==
    <<"n", "a", "m", "e", "s", "p", "a", "c", "e", ":", " ">>
    \o namespace \o <<"\n", "\n">> \o content

\* `namespace:: ${namespace}\n\n${content}` of the analysis loop
plannedNewContent(namespace, content) ==
    NamespacePrefix \o namespace \o <<"\n", "\n">> \o content

\* namespaceMetadata ending in a single newline
injectNewContent_oneNewline(namespace, content) ==
    LET namespaceMetadata == NamespacePrefix \o namespace \o <<"\n">>
    IN namespaceMetadata \o content

\* namespaceMetadata + content of injectNamespace
injectNewContent(namespace, content) ==
    LET namespaceMetadata == NamespacePrefix \o namespace \o <<"\n", "\n">>
    IN namespaceMetadata \o content

(***************************************************************************)
(* Host: file enumeration                                                  *)
(***************************************************************************)
\* the order in which vault.getMarkdownFiles() enumerates
EnumerationOrder == <<"notes", "m", "n", "r", "t", "d">> \o BulkNotes

\* vault.getMarkdownFiles()
getMarkdownFiles(fs, v) ==
    LET isMarkdown(f) == f \in fs /\ v[f] # Absent /\ extension(f) = MdExtension
    IN SelectSeq(EnumerationOrder, isMarkdown)

\* getFilesToProcess
getFilesToProcess(fs, v, st) ==
    LET keep(f) == parentPath(f) # <<>> /\ ~shouldExcludeFile(f, st)
    IN SelectSeq(getMarkdownFiles(fs, v), keep)

\* the body of the analysis loop putting a new change in front of the plan
analyzeFile_unshift(plan, f, content, st) ==
    LET hasNamespace == hasNamespaceMetadata(content) IN
    IF ~hasNamespace
    THEN LET namespace == generateNamespace(f, st) IN
         IF namespace # <<>>
         THEN <<[file |-> f,
                 newContent |-> plannedNewContent(namespace, content),
                 hasNamespace |-> hasNamespace]>> \o plan
         ELSE plan
    ELSE plan

\* body of the analysis loop of processExistingFiles for one file whose read
\* returned content
analyzeFile(plan, f, content, st) ==
    LET hasNamespace == hasNamespaceMetadata(content) IN
    IF ~hasNamespace
    THEN LET namespace == generateNamespace(f, st) IN
         IF namespace # <<>>
         THEN Append(plan, [file |-> f,
                            newContent |-> plannedNewContent(namespace, content),
                            hasNamespace |-> hasNamespace])
         ELSE plan
    ELSE plan

(***************************************************************************)
(* Inputs                                                                  *)
(***************************************************************************)
Hello == <<"H", "e", "l", "l", "o">>
Marked == <<"H", "i", "\n">> \o NamespacePrefix \o <<"x">>
Hi == <<"H", "i">>

MainFiles == {"m", "n", "r", "t"}
InitialContents == {Hello, Marked}
\* the notes the user edits, and what an edit leaves in the note
EditableFiles == {"n"}
EditContents == {Hi}
MainFormats == {PathPlaceholder, <<"n", "o", "t", "e", "s", "/">> \o PathPlaceholder}
BatchSizes == {1}
\* the batch sizes of the runs that are followed write by write
SmallBatchSizes == {1, 2}

\* inputs of the rule engine
FnFiles == {"notes", "d"}
FnContents ==
    {<<>>,
     Hello,
     NamespacePrefix \o <<"x">>,
     <<"n", "a", "m", "e", "s", "p", "a", "c", "e", ":", ":", "\n", "H", "i">>,
     <<"H", "i", "\n", " ", "n", "a", "m", "e", "s", "p", "a", "c", "e", " ",
       ":", ":", "x">>}
FormatParts ==
    {PathPlaceholder, NamePlaceholder, <<"/">>,
     <<"n", "o", "t", "e", "s", "/">>}

RECURSIVE FormatsOfParts(_)
FormatsOfParts(k) ==
    IF k = 0 THEN {<<>>}
    ELSE {part \o rest : part \in FormatParts, rest \in FormatsOfParts(k - 1)}

FnFormats == UNION {FormatsOfParts(k) : k \in 1..MaxParts}

NoInjection == [pc |-> "none", namespace |-> <<>>, newContent |-> <<>>]

NoOutcome == [file |-> "", outcome |-> "none"]
Outcome(f, o) == [file |-> f, outcome |-> o]

\* preBatch once a write from outside the run has happened
NoSnapshot == <<>>
Dirty == preBatch = NoSnapshot

\* no modal has been opened by the run
NoModal == [open |-> FALSE, fileCount |-> 0, warning |-> FALSE, closedBy |-> "none"]

\* previewChanges has not been called
NoPreview == [pc |-> "idle", files |-> <<>>, idx |-> 0, plannedChanges |-> <<>>,
              notice |-> [kind |-> "none", count |-> 0, lines |-> <<>>, more |-> 0]]

\* the operations that begin with validateVaultState
Operations == {"processExistingFiles", "previewChanges", "injectNamespace"}

\* validateVaultState has shown no notice
NoVaultNotice == [op \in Operations |-> "none"]

IdlePhases == {"IDLE", "NO_FILES", "SCAN_FAILED", "NO_CHANGES", "CANCELLED",
               "FAILED", "DONE", "ROLLED_BACK"}

(***************************************************************************)
(* Initial state: the plugin has loaded (onload)                           *)
(***************************************************************************)
Init ==
    /\ files = MainFiles
    /\ vault \in [MainFiles -> InitialContents \cup {Absent}]
    /\ Cardinality({f \in MainFiles : vault[f] = Absent}) <= MaxCreates
    /\ \E fmt \in MainFormats, auto \in BOOLEAN, bs \in BatchSizes :
          settings = [DEFAULT_SETTINGS EXCEPT !.namespaceFormat = fmt,
                                              !.autoProcessNewFiles = auto,
                                              !.batchSize = bs]
    /\ hookRegistered = settings.autoProcessNewFiles
    /\ inj = [f \in MainFiles |-> NoInjection]
    /\ lastOutcome = NoOutcome
    /\ phase = "IDLE"
    /\ filesToProcess = <<>>
    /\ scanIdx = 0
    /\ plannedChanges = <<>>
    /\ backups = <<>>
    /\ applyIdx = 0
    /\ restoreIdx = 0
    /\ ioLog = <<>>
    /\ preBatch = NoSnapshot
    /\ modal = NoModal
    /\ scanSettings = DEFAULT_SETTINGS
    /\ preview = NoPreview
    /\ storage = "ready"
    /\ vaultNotice = NoVaultNotice

batchVars == <<phase, filesToProcess, scanIdx, plannedChanges, backups,
               applyIdx, restoreIdx, ioLog, modal, scanSettings>>

(***************************************************************************)
(* Host and user                                                           *)
(***************************************************************************)
\* what the host's storage can be: there, without this.app.vault, or with a
\* vault that has no adapter yet
StorageStates == {"ready", "noVault", "noAdapter"}

\* the storage of the host becomes available or unavailable
HostStorage(s) ==
    /\ s # storage
    /\ storage' = s
    /\ UNCHANGED <<files, vault, settings, hookRegistered, inj, lastOutcome,
                   batchVars, preBatch, preview, vaultNotice>>

\* validateVaultState testing the vault only
validateVaultState_vaultOnly(s) ==
    IF s = "noVault"
    THEN [ok |-> FALSE, notice |-> "Vault not available. Please try again."]
    ELSE [ok |-> TRUE, notice |-> "none"]

\* validateVaultState: its result and the notice it shows
validateVaultState(s) ==
    IF s = "noVault"
    THEN [ok |-> FALSE, notice |-> "Vault not available. Please try again."]
    ELSE IF s = "noAdapter"
    THEN [ok |-> FALSE, notice |-> "Vault adapter not ready. Please try again."]
    ELSE [ok |-> TRUE, notice |-> "none"]

\* the notices after operation op has called validateVaultState
noticeAfter(op) ==
    LET valid == validateVaultState(storage) IN
    IF valid.ok THEN vaultNotice
    ELSE [vaultNotice EXCEPT ![op] = valid.notice]

\* A write from outside the batch run. The variables of a run that has ended
\* are a record of that run (the function has returned): the record is kept
\* until the vault next changes, and the snapshot preBatch likewise.
OutsideWrite ==
    /\ preBatch' = NoSnapshot
    /\ IF phase \in IdlePhases
       THEN /\ phase' = "IDLE"
            /\ filesToProcess' = <<>>
            /\ scanIdx' = 0
            /\ plannedChanges' = <<>>
            /\ backups' = <<>>
            /\ applyIdx' = 0
            /\ restoreIdx' = 0
            /\ ioLog' = <<>>
            /\ modal' = NoModal
            /\ scanSettings' = DEFAULT_SETTINGS
       ELSE UNCHANGED batchVars

\* the host creates file f and notifies the 'create' listener of onload
Create(f) ==
    /\ vault[f] = Absent
    /\ \E c \in InitialContents : vault' = [vault EXCEPT ![f] = c]
    /\ inj' = IF hookRegistered /\ extension(f) = MdExtension
              THEN [inj EXCEPT ![f] = [NoInjection EXCEPT !.pc = "timer"]]
              ELSE inj
    /\ OutsideWrite
    /\ UNCHANGED <<preview, files, storage, vaultNotice, settings, hookRegistered, lastOutcome>>

\* the user edits a note in the editor
EditNote(f) ==
    /\ f \in EditableFiles
    /\ vault[f] # Absent
    /\ \E c \in EditContents : c # vault[f] /\ vault' = [vault EXCEPT ![f] = c]
    /\ OutsideWrite
    /\ UNCHANGED <<preview, files, storage, vaultNotice, settings, hookRegistered, inj, lastOutcome>>

(***************************************************************************)
(* Single-note injection (injectNamespace)                                 *)
(***************************************************************************)
\* the timer of the creation hook fires: injectNamespace up to the point
\* where vault.modify is issued
injectNamespace_read(f) ==
    /\ inj[f].pc = "timer"
    /\ vaultNotice' = noticeAfter("injectNamespace")
    /\ LET namespace == generateNamespace(f, settings)
           ends(o) == /\ inj' = [inj EXCEPT ![f] = NoInjection]
                      /\ lastOutcome' = Outcome(f, o)
       IN
       IF ~validateVaultState(storage).ok
       THEN ends("notReady")
       ELSE IF namespace = <<>> \/ shouldExcludeFile(f, settings)
       THEN ends("skipped")
       ELSE \E ok \in BOOLEAN :
            IF ~ok
            THEN ends("threw")
            ELSE LET content == vault[f]
                     newContent == injectNewContent(namespace, content)
                 IN IF hasNamespaceMetadata(content)
                       \/ Len(newContent) < Len(content)
                    THEN ends("skipped")
                    ELSE /\ inj' = [inj EXCEPT ![f] = [pc |-> "writing",
                                                      namespace |-> namespace,
                                                      newContent |-> newContent]]
                         /\ lastOutcome' = lastOutcome
    /\ UNCHANGED <<preview, files, storage, vault, settings, hookRegistered, batchVars, preBatch>>

\* vault.modify(file, newContent) of injectNamespace completes
injectNamespace_write(f) ==
    /\ inj[f].pc = "writing"
    /\ inj' = [inj EXCEPT ![f] = NoInjection]
    /\ \E ok \in BOOLEAN :
        IF ok
        THEN /\ vault' = [vault EXCEPT ![f] = inj[f].newContent]
             /\ lastOutcome' = Outcome(f, "done")
             /\ OutsideWrite
        ELSE /\ lastOutcome' = Outcome(f, "threw")
             /\ UNCHANGED <<vault, preBatch, batchVars>>
    /\ UNCHANGED <<preview, files, storage, vaultNotice, settings, hookRegistered>>

(***************************************************************************)
(* Batch processor: processExistingFiles                                   *)
(***************************************************************************)
\* the modal warning from 100 files on
BulkOperationModal_onOpen_fromHundred(fileList) ==
    [open |-> TRUE,
     fileCount |-> Len(fileList),
     warning |-> Len(fileList) >= 100,
     closedBy |-> "none"]

\* BulkOperationModal.onOpen: the count of files and the warning of a large
\* operation
BulkOperationModal_onOpen(fileList) ==
    [open |-> TRUE,
     fileCount |-> Len(fileList),
     warning |-> Len(fileList) > 100,
     closedBy |-> "none"]

LogEntry(stage, op, f, ok) == [stage |-> stage, op |-> op, file |-> f, ok |-> ok]

\* the command or the settings button starts processExistingFiles
processExistingFiles_start ==
    /\ phase \in IdlePhases
    /\ vaultNotice' = noticeAfter("processExistingFiles")
    /\ IF ~validateVaultState(storage).ok
       THEN UNCHANGED <<batchVars, preBatch>>
       ELSE /\ filesToProcess' = getFilesToProcess(files, vault, settings)
            /\ phase' = IF Len(filesToProcess') = 0 THEN "NO_FILES" ELSE "SCANNING"
            /\ scanIdx' = 1
            /\ plannedChanges' = <<>>
            /\ backups' = <<>>
            /\ applyIdx' = 0
            /\ restoreIdx' = 0
            /\ ioLog' = <<>>
            /\ preBatch' = vault
            /\ modal' = NoModal
            /\ scanSettings' = settings
    /\ UNCHANGED <<preview, files, storage, vault, settings, hookRegistered, inj, lastOutcome>>

\* the analysis loop logging a failed read and going on with the next file
processExistingFiles_analyze_skipsFailed ==
    /\ phase = "SCANNING"
    /\ LET f == filesToProcess[scanIdx] IN
       \E ok \in BOOLEAN :
          /\ ioLog' = Append(ioLog, LogEntry("scan", "read", f, ok))
          /\ plannedChanges' =
                IF ok THEN analyzeFile(plannedChanges, f, vault[f], settings)
                ELSE plannedChanges
          /\ scanIdx' = scanIdx + 1
          /\ phase' = IF scanIdx < Len(filesToProcess) THEN "SCANNING"
                      ELSE IF Len(plannedChanges') = 0 THEN "NO_CHANGES"
                      ELSE "AWAITING_CONFIRMATION"
    /\ modal' = IF phase' = "AWAITING_CONFIRMATION"
                THEN BulkOperationModal_onOpen(
                        [k \in 1..Len(plannedChanges') |-> plannedChanges'[k].file])
                ELSE modal
    /\ UNCHANGED <<scanSettings, preview, files, storage, vaultNotice, vault, settings, hookRegistered,
                   inj, lastOutcome, filesToProcess, backups, applyIdx,
                   restoreIdx, preBatch>>

\* one iteration of the analysis loop; after the last one the confirmation
\* modal is opened unless nothing is planned
processExistingFiles_analyze ==
    /\ phase = "SCANNING"
    /\ LET f == filesToProcess[scanIdx] IN
       \E ok \in BOOLEAN :
          /\ ioLog' = Append(ioLog, LogEntry("scan", "read", f, ok))
          /\ IF ~ok
             THEN /\ phase' = "SCAN_FAILED"
                  /\ UNCHANGED <<plannedChanges, scanIdx>>
             ELSE /\ plannedChanges' =
                        analyzeFile(plannedChanges, f, vault[f], settings)
                  /\ scanIdx' = scanIdx + 1
                  /\ phase' = IF scanIdx < Len(filesToProcess) THEN "SCANNING"
                              ELSE IF Len(plannedChanges') = 0 THEN "NO_CHANGES"
                              ELSE "AWAITING_CONFIRMATION"
    /\ modal' = IF phase' = "AWAITING_CONFIRMATION"
                THEN BulkOperationModal_onOpen(
                        [k \in 1..Len(plannedChanges') |-> plannedChanges'[k].file])
                ELSE modal
    /\ UNCHANGED <<scanSettings, preview, files, storage, vaultNotice, vault, settings, hookRegistered, inj, lastOutcome, filesToProcess,
                   backups, applyIdx, restoreIdx, preBatch>>

\* the cancel button wired to the callback of the confirm button
BulkOperationModal_cancel_confirms ==
    /\ phase = "AWAITING_CONFIRMATION"
    /\ modal.open
    /\ modal' = [modal EXCEPT !.open = FALSE, !.closedBy = "cancel"]
    /\ phase' = "BACKING_UP"
    /\ backups' = <<>>
    /\ UNCHANGED <<scanSettings, preview, files, storage, vaultNotice, vault, settings, hookRegistered,
                   inj, lastOutcome, filesToProcess, scanIdx, plannedChanges,
                   applyIdx, restoreIdx, ioLog, preBatch>>

\* BulkOperationModal: the cancel button
BulkOperationModal_cancel ==
    /\ phase = "AWAITING_CONFIRMATION"
    /\ modal.open
    /\ modal' = [modal EXCEPT !.open = FALSE, !.closedBy = "cancel"]
    /\ phase' = "CANCELLED"
    /\ UNCHANGED <<scanSettings, preview, files, storage, vaultNotice, vault, settings, hookRegistered, inj, lastOutcome, filesToProcess,
                   scanIdx, plannedChanges, backups, applyIdx, restoreIdx,
                   ioLog, preBatch>>

\* BulkOperationModal: the confirm button calls executeAtomicOperation
BulkOperationModal_confirm ==
    /\ phase = "AWAITING_CONFIRMATION"
    /\ modal.open
    /\ modal' = [modal EXCEPT !.open = FALSE, !.closedBy = "confirm"]
    /\ phase' = "BACKING_UP"
    /\ backups' = <<>>
    /\ UNCHANGED <<scanSettings, preview, files, storage, vaultNotice, vault, settings, hookRegistered, inj, lastOutcome, filesToProcess,
                   scanIdx, plannedChanges, applyIdx, restoreIdx, ioLog,
                   preBatch>>

(***************************************************************************)
(* Batch processor: executeAtomicOperation                                 *)
(***************************************************************************)
\* createBackups returning after its first iteration
createBackupsComplete_first(bk, plan) == Len(bk) >= 1

\* the loop of createBackups has gone through all of filesToModify
createBackupsComplete(bk, plan) == Len(bk) = Len(plan)

\* createBackups returning the backups made so far when a read fails
createBackups_partial ==
    /\ phase = "BACKING_UP"
    /\ LET f == plannedChanges[Len(backups) + 1].file IN
       \E ok \in BOOLEAN :
          /\ ioLog' = Append(ioLog, LogEntry("backup", "read", f, ok))
          /\ IF ~ok
             THEN /\ backups' = backups
                  /\ phase' = "APPLYING"
             ELSE /\ backups' = Append(backups, [file |-> f,
                                                 originalContent |-> vault[f]])
                  /\ phase' = IF createBackupsComplete(backups', plannedChanges)
                              THEN "APPLYING" ELSE "BACKING_UP"
    /\ applyIdx' = 0
    /\ UNCHANGED <<modal, scanSettings, preview, files, storage, vaultNotice, vault, settings,
                   hookRegistered, inj, lastOutcome, filesToProcess, scanIdx,
                   plannedChanges, restoreIdx, preBatch>>

\* one iteration of createBackups; a failed read throws and leaves the
\* backups of executeAtomicOperation empty
createBackups ==
    /\ phase = "BACKING_UP"
    /\ LET f == plannedChanges[Len(backups) + 1].file IN
       \E ok \in BOOLEAN :
          /\ ioLog' = Append(ioLog, LogEntry("backup", "read", f, ok))
          /\ IF ~ok
             THEN /\ backups' = <<>>
                  /\ phase' = "FAILED"
             ELSE /\ backups' = Append(backups, [file |-> f,
                                                 originalContent |-> vault[f]])
                  /\ phase' = IF createBackupsComplete(backups', plannedChanges)
                              THEN "APPLYING" ELSE "BACKING_UP"
    /\ applyIdx' = 0
    /\ UNCHANGED <<modal, scanSettings, preview, files, storage, vaultNotice, vault, settings, hookRegistered, inj, lastOutcome, filesToProcess,
                   scanIdx, plannedChanges, restoreIdx, preBatch>>

\* the test of the delay in the apply loop, i being 0-based
applyPauses(i, st) == i > 0 /\ st.batchSize > 0 /\ i % st.batchSize = 0

\* the apply loop is over after iteration i
applyComplete(i, plan) == i + 1 >= Len(plan)

\* one iteration of the apply loop: vault.modify(change.file, change.newContent)
executeAtomicOperation_apply ==
    /\ phase = "APPLYING"
    /\ LET change == plannedChanges[applyIdx + 1] IN
       \E ok \in BOOLEAN :
          /\ ioLog' = Append(ioLog, LogEntry("apply", "write", change.file, ok))
          /\ IF ~ok
             THEN /\ phase' = "ROLLING_BACK"
                  /\ restoreIdx' = 1
                  /\ UNCHANGED <<vault, applyIdx>>
             ELSE /\ vault' = [vault EXCEPT ![change.file] = change.newContent]
                  /\ restoreIdx' = restoreIdx
                  /\ IF applyPauses(applyIdx, settings)
                     THEN /\ phase' = "PAUSED"
                          /\ applyIdx' = applyIdx
                     ELSE /\ phase' = IF applyComplete(applyIdx, plannedChanges)
                                      THEN "DONE" ELSE "APPLYING"
                          /\ applyIdx' = applyIdx + 1
    /\ UNCHANGED <<modal, scanSettings, preview, files, storage, vaultNotice, settings, hookRegistered, inj, lastOutcome, filesToProcess,
                   scanIdx, plannedChanges, backups, preBatch>>

\* the 50 ms timer of the apply loop fires
executeAtomicOperation_resume ==
    /\ phase = "PAUSED"
    /\ phase' = IF applyComplete(applyIdx, plannedChanges)
                THEN "DONE" ELSE "APPLYING"
    /\ applyIdx' = applyIdx + 1
    /\ ioLog' = Append(ioLog, LogEntry("apply", "pause",
                                       plannedChanges[applyIdx + 1].file, TRUE))
    /\ UNCHANGED <<modal, scanSettings, preview, files, storage, vaultNotice, vault, settings, hookRegistered, inj, lastOutcome, filesToProcess,
                   scanIdx, plannedChanges, backups, restoreIdx, preBatch>>

\* restoreFromBackups leaving its loop at the first failed write
restoreFromBackups_stopsAtFailure ==
    /\ phase = "ROLLING_BACK"
    /\ LET backup == backups[restoreIdx] IN
       \E ok \in BOOLEAN :
          /\ ioLog' = Append(ioLog, LogEntry("restore", "write", backup.file, ok))
          /\ vault' = IF ok
                      THEN [vault EXCEPT ![backup.file] = backup.originalContent]
                      ELSE vault
          /\ phase' = IF ok /\ restoreIdx < Len(backups) THEN "ROLLING_BACK"
                      ELSE "ROLLED_BACK"
    /\ restoreIdx' = restoreIdx + 1
    /\ UNCHANGED <<modal, scanSettings, preview, files, storage, vaultNotice, settings, hookRegistered,
                   inj, lastOutcome, filesToProcess, scanIdx, plannedChanges,
                   backups, applyIdx, preBatch>>

\* restoreFromBackups trying a failed write a second time
restoreFromBackups_retriesOnce ==
    /\ phase = "ROLLING_BACK"
    /\ LET backup == backups[restoreIdx]
           last == ioLog[Len(ioLog)]
           retried == last.stage = "restore" /\ last.file = backup.file
       IN
       \E ok \in BOOLEAN :
          /\ ioLog' = Append(ioLog, LogEntry("restore", "write", backup.file, ok))
          /\ vault' = IF ok
                      THEN [vault EXCEPT ![backup.file] = backup.originalContent]
                      ELSE vault
          /\ IF ~ok /\ ~retried
             THEN UNCHANGED <<restoreIdx, phase>>
             ELSE /\ restoreIdx' = restoreIdx + 1
                  /\ phase' = IF restoreIdx < Len(backups) THEN "ROLLING_BACK"
                              ELSE "ROLLED_BACK"
    /\ UNCHANGED <<modal, scanSettings, preview, files, storage, vaultNotice, settings, hookRegistered,
                   inj, lastOutcome, filesToProcess, scanIdx, plannedChanges,
                   backups, applyIdx, preBatch>>

\* one iteration of restoreFromBackups; a failed write is logged and the loop
\* goes on
restoreFromBackups ==
    /\ phase = "ROLLING_BACK"
    /\ LET backup == backups[restoreIdx] IN
       \E ok \in BOOLEAN :
          /\ ioLog' = Append(ioLog, LogEntry("restore", "write", backup.file, ok))
          /\ vault' = IF ok
                      THEN [vault EXCEPT ![backup.file] = backup.originalContent]
                      ELSE vault
    /\ restoreIdx' = restoreIdx + 1
    /\ phase' = IF restoreIdx < Len(backups) THEN "ROLLING_BACK"
                ELSE "ROLLED_BACK"
    /\ UNCHANGED <<modal, scanSettings, preview, files, storage, vaultNotice, settings, hookRegistered, inj, lastOutcome, filesToProcess,
                   scanIdx, plannedChanges, backups, applyIdx, preBatch>>

(***************************************************************************)
(* Preview (previewChanges)                                                *)
(***************************************************************************)
NoNotice == [kind |-> "none", count |-> 0, lines |-> <<>>, more |-> 0]

Min(a, b) == IF a <= b THEN a ELSE b

\* the preview notice with a line for every planned change
previewNotice_allLines(plan, st) ==
    [kind |-> "preview",
     count |-> Len(plan),
     lines |-> [k \in 1..Len(plan) |->
                  [path |-> path(plan[k].file),
                   namespace |-> generateNamespace(plan[k].file, st)]],
     more |-> IF Len(plan) > 10 THEN Len(plan) - 10 ELSE 0]

\* the notice of previewChanges: plannedChanges.slice(0, 10) as lines and
\* the count of the remaining files (0: moreText is empty)
previewNotice(plan, st) ==
    [kind |-> "preview",
     count |-> Len(plan),
     lines |-> [k \in 1..Min(10, Len(plan)) |->
                  [path |-> path(plan[k].file),
                   namespace |-> generateNamespace(plan[k].file, st)]],
     more |-> IF Len(plan) > 10 THEN Len(plan) - 10 ELSE 0]

\* previewChanges returns, showing notice
previewEnds(notice) ==
    preview' = [pc |-> "idle", files |-> <<>>, idx |-> 0,
                plannedChanges |-> <<>>, notice |-> notice]

\* the preview command or the preview button calls previewChanges
previewChanges_start ==
    /\ preview.pc = "idle"
    /\ vaultNotice' = noticeAfter("previewChanges")
    /\ LET list == getFilesToProcess(files, vault, settings) IN
       IF ~validateVaultState(storage).ok
       THEN preview' = preview
       ELSE IF Len(list) = 0
       THEN previewEnds([NoNotice EXCEPT !.kind = "empty"])
       ELSE preview' = [pc |-> "reading", files |-> list, idx |-> 1,
                        plannedChanges |-> <<>>, notice |-> NoNotice]
    /\ UNCHANGED <<files, storage, vault, settings, hookRegistered, inj, lastOutcome,
                   batchVars, preBatch>>

\* one iteration of the loop of previewChanges; after the last one the notice
\* is shown
previewChanges_read ==
    /\ preview.pc = "reading"
    /\ LET f == preview.files[preview.idx] IN
       \E ok \in BOOLEAN :
          IF ~ok
          THEN previewEnds([NoNotice EXCEPT !.kind = "error"])
          ELSE LET plan == analyzeFile(preview.plannedChanges, f, vault[f],
                                       settings)
               IN IF preview.idx < Len(preview.files)
                  THEN preview' = [preview EXCEPT !.idx = preview.idx + 1,
                                                  !.plannedChanges = plan]
                  ELSE IF Len(plan) = 0
                  THEN previewEnds([NoNotice EXCEPT !.kind = "empty"])
                  ELSE previewEnds(previewNotice(plan, settings))
    /\ UNCHANGED <<files, storage, vaultNotice, vault, settings, hookRegistered, inj, lastOutcome,
                   batchVars, preBatch>>

(***************************************************************************)
(* Settings tab                                                            *)
(***************************************************************************)
\* onChange of the toggle 'Auto-process new files'
Setting_autoProcessNewFiles_onChange(value) ==
    /\ settings' = [settings EXCEPT !.autoProcessNewFiles = value]
    /\ settings' # settings
    /\ UNCHANGED <<files, storage, vaultNotice, vault, hookRegistered, inj, lastOutcome, batchVars,
                   preBatch, preview>>

\* onChange of the text field 'Namespace format'
Setting_namespaceFormat_onChange(value) ==
    /\ settings' = [settings EXCEPT
                        !.namespaceFormat = IF value # <<>> THEN value
                                            ELSE PathPlaceholder]
    /\ settings' # settings
    /\ UNCHANGED <<files, storage, vaultNotice, vault, hookRegistered, inj, lastOutcome, batchVars,
                   preBatch, preview>>

\* onChange of the slider 'Batch size'
Setting_batchSize_onChange(value) ==
    /\ settings' = [settings EXCEPT !.batchSize = value]
    /\ settings' # settings
    /\ UNCHANGED <<files, storage, vaultNotice, vault, hookRegistered, inj, lastOutcome, batchVars,
                   preBatch, preview>>

(***************************************************************************)
(* Specification                                                           *)
(***************************************************************************)
Next ==
    \/ \E f \in files : Create(f)
    \/ \E f \in files : EditNote(f)
    \/ \E f \in files : injectNamespace_read(f)
    \/ \E f \in files : injectNamespace_write(f)
    \/ processExistingFiles_start
    \/ processExistingFiles_analyze
    \/ BulkOperationModal_cancel
    \/ BulkOperationModal_confirm
    \/ createBackups
    \/ executeAtomicOperation_apply
    \/ executeAtomicOperation_resume
    \/ restoreFromBackups

Spec == Init /\ [][Next]_vars

(***************************************************************************)
(* The rule engine on many formats and contents: the notes have just been  *)
(* created (their injection timers are pending) and the user runs batches  *)
(***************************************************************************)
InitFn ==
    /\ files = FnFiles
    /\ vault \in [FnFiles -> FnContents]
    /\ vault["d"] = Hello
    /\ \E fmt \in FnFormats :
          settings = [DEFAULT_SETTINGS EXCEPT !.namespaceFormat = fmt,
                                              !.batchSize = 1]
    /\ hookRegistered = settings.autoProcessNewFiles
    /\ inj = [f \in FnFiles |-> [NoInjection EXCEPT !.pc = "timer"]]
    /\ lastOutcome = NoOutcome
    /\ phase = "IDLE"
    /\ filesToProcess = <<>>
    /\ scanIdx = 0
    /\ plannedChanges = <<>>
    /\ backups = <<>>
    /\ applyIdx = 0
    /\ restoreIdx = 0
    /\ ioLog = <<>>
    /\ preBatch = NoSnapshot
    /\ modal = NoModal
    /\ scanSettings = DEFAULT_SETTINGS
    /\ preview = NoPreview
    /\ storage = "ready"
    /\ vaultNotice = NoVaultNotice

NextFn ==
    \/ \E f \in files : injectNamespace_read(f)
    \/ \E f \in files : injectNamespace_write(f)
    \/ processExistingFiles_start
    \/ processExistingFiles_analyze
    \/ BulkOperationModal_cancel
    \/ BulkOperationModal_confirm
    \/ createBackups
    \/ executeAtomicOperation_apply
    \/ executeAtomicOperation_resume
    \/ restoreFromBackups

SpecFn == InitFn /\ [][NextFn]_vars

(***************************************************************************)
(* A large vault: about MaxNotes notes in one folder, the first few of     *)
(* them marked already; the user starts batch runs and cancels them        *)
(***************************************************************************)
\* the first n notes of the large vault
FirstNotes(n) == {BulkNotes[k] : k \in 1..n}

\* the vault holds n notes, the first marked of them with a marker
LargeVault(n, marked) ==
    /\ files = FirstNotes(n)
    /\ vault = [f \in FirstNotes(n) |->
                    IF f \in FirstNotes(marked) THEN Marked ELSE Hello]
    /\ hookRegistered = settings.autoProcessNewFiles
    /\ inj = [f \in FirstNotes(n) |-> NoInjection]
    /\ lastOutcome = NoOutcome
    /\ phase = "IDLE"
    /\ filesToProcess = <<>>
    /\ scanIdx = 0
    /\ plannedChanges = <<>>
    /\ backups = <<>>
    /\ applyIdx = 0
    /\ restoreIdx = 0
    /\ ioLog = <<>>
    /\ preBatch = NoSnapshot
    /\ modal = NoModal
    /\ scanSettings = DEFAULT_SETTINGS
    /\ preview = NoPreview
    /\ storage = "ready"
    /\ vaultNotice = NoVaultNotice

InitBulk ==
    /\ settings = DEFAULT_SETTINGS
    /\ \E n \in (MaxNotes - 3)..MaxNotes, marked \in 0..MaxMarked :
          marked <= n /\ LargeVault(n, marked)

NextBulk ==
    \/ processExistingFiles_start
    \/ processExistingFiles_analyze
    \/ BulkOperationModal_cancel

SpecBulk == InitBulk /\ [][NextBulk]_vars

(***************************************************************************)
(* Whole batch runs over MaxBatchNotes notes, followed read by read and    *)
(* write by write, while the user changes the settings                     *)
(***************************************************************************)
InitBatch ==
    /\ files = FirstNotes(MaxBatchNotes)
    /\ vault \in [FirstNotes(MaxBatchNotes) -> InitialContents]
    /\ \E fmt \in MainFormats, bs \in SmallBatchSizes :
          settings = [DEFAULT_SETTINGS EXCEPT !.namespaceFormat = fmt,
                                              !.batchSize = bs]
    /\ hookRegistered = settings.autoProcessNewFiles
    /\ inj = [f \in FirstNotes(MaxBatchNotes) |-> NoInjection]
    /\ lastOutcome = NoOutcome
    /\ phase = "IDLE"
    /\ filesToProcess = <<>>
    /\ scanIdx = 0
    /\ plannedChanges = <<>>
    /\ backups = <<>>
    /\ applyIdx = 0
    /\ restoreIdx = 0
    /\ ioLog = <<>>
    /\ preBatch = NoSnapshot
    /\ modal = NoModal
    /\ scanSettings = DEFAULT_SETTINGS
    /\ preview = NoPreview
    /\ storage = "ready"
    /\ vaultNotice = NoVaultNotice

NextBatch ==
    \/ processExistingFiles_start
    \/ processExistingFiles_analyze
    \/ BulkOperationModal_cancel
    \/ BulkOperationModal_confirm
    \/ createBackups
    \/ executeAtomicOperation_apply
    \/ executeAtomicOperation_resume
    \/ restoreFromBackups
    \/ \E value \in MainFormats \cup {<<>>} : Setting_namespaceFormat_onChange(value)
    \/ \E value \in SmallBatchSizes : Setting_batchSize_onChange(value)

SpecBatch == InitBatch /\ [][NextBatch]_vars

\* the host completes every read and write it was asked for, and the timer
\* of the pause fires
HostCompletes ==
    /\ WF_vars(processExistingFiles_analyze)
    /\ WF_vars(createBackups)
    /\ WF_vars(executeAtomicOperation_apply)
    /\ WF_vars(executeAtomicOperation_resume)
    /\ WF_vars(restoreFromBackups)

SpecBatchFair == SpecBatch /\ HostCompletes

(***************************************************************************)
(* Previews of a vault of up to MaxPreviewNotes notes                      *)
(***************************************************************************)
InitPreview ==
    /\ \E fmt \in MainFormats :
          settings = [DEFAULT_SETTINGS EXCEPT !.namespaceFormat = fmt]
    /\ \E n \in 0..MaxPreviewNotes, marked \in 0..MaxMarked :
          marked <= n /\ LargeVault(n, marked)

NextPreview ==
    \/ previewChanges_start
    \/ previewChanges_read

SpecPreview == InitPreview /\ [][NextPreview]_vars

(***************************************************************************)
(* The creation hook: the host creates files, markdown notes and others,   *)
(* while the user switches 'Auto-process new files' on and off             *)
(***************************************************************************)
HookFiles == {"n", "m", "r", "i"}

InitHook ==
    /\ files = HookFiles
    /\ vault = [f \in HookFiles |-> Absent]
    /\ \E auto \in BOOLEAN :
          settings = [DEFAULT_SETTINGS EXCEPT !.autoProcessNewFiles = auto]
    /\ hookRegistered = settings.autoProcessNewFiles
    /\ inj = [f \in HookFiles |-> NoInjection]
    /\ lastOutcome = NoOutcome
    /\ phase = "IDLE"
    /\ filesToProcess = <<>>
    /\ scanIdx = 0
    /\ plannedChanges = <<>>
    /\ backups = <<>>
    /\ applyIdx = 0
    /\ restoreIdx = 0
    /\ ioLog = <<>>
    /\ preBatch = NoSnapshot
    /\ modal = NoModal
    /\ scanSettings = DEFAULT_SETTINGS
    /\ preview = NoPreview
    /\ storage = "ready"
    /\ vaultNotice = NoVaultNotice

NextHook ==
    \/ \E value \in BOOLEAN : Setting_autoProcessNewFiles_onChange(value)
    \/ \E f \in files : Create(f)
    \/ \E f \in files : injectNamespace_read(f)
    \/ \E f \in files : injectNamespace_write(f)

SpecHook == InitHook /\ [][NextHook]_vars

(***************************************************************************)
(* The storage of the host comes and goes while notes are created and the  *)
(* user asks for batch runs and previews                                   *)
(***************************************************************************)
StorageFiles == {"n"}

InitStorage ==
    /\ files = StorageFiles
    /\ vault \in [StorageFiles -> {Hello, Absent}]
    /\ settings = DEFAULT_SETTINGS
    /\ hookRegistered = settings.autoProcessNewFiles
    /\ inj = [f \in StorageFiles |-> NoInjection]
    /\ lastOutcome = NoOutcome
    /\ phase = "IDLE"
    /\ filesToProcess = <<>>
    /\ scanIdx = 0
    /\ plannedChanges = <<>>
    /\ backups = <<>>
    /\ applyIdx = 0
    /\ restoreIdx = 0
    /\ ioLog = <<>>
    /\ preBatch = NoSnapshot
    /\ modal = NoModal
    /\ scanSettings = DEFAULT_SETTINGS
    /\ preview = NoPreview
    /\ storage \in StorageStates
    /\ vaultNotice = NoVaultNotice

NextStorage ==
    \/ \E s \in StorageStates : HostStorage(s)
    \/ \E f \in files : Create(f)
    \/ \E f \in files : injectNamespace_read(f)
    \/ \E f \in files : injectNamespace_write(f)
    \/ processExistingFiles_start
    \/ processExistingFiles_analyze
    \/ BulkOperationModal_cancel
    \/ previewChanges_start
    \/ previewChanges_read

SpecStorage == InitStorage /\ [][NextStorage]_vars

(***************************************************************************)
(* One note at a time, in folders of several shapes, under every format    *)
(* of up to MaxParts parts: the note has just been created and the user    *)
(* runs batches                                                            *)
(***************************************************************************)
ValueFiles == {"notes", "n", "r", "d"}

InitValue ==
    /\ \E f \in ValueFiles, c \in {<<>>, Hello} :
          /\ files = {f}
          /\ vault = [g \in {f} |-> c]
          /\ inj = [g \in {f} |-> [NoInjection EXCEPT !.pc = "timer"]]
    /\ \E fmt \in FnFormats :
          settings = [DEFAULT_SETTINGS EXCEPT !.namespaceFormat = fmt,
                                              !.batchSize = 1]
    /\ hookRegistered = settings.autoProcessNewFiles
    /\ lastOutcome = NoOutcome
    /\ phase = "IDLE"
    /\ filesToProcess = <<>>
    /\ scanIdx = 0
    /\ plannedChanges = <<>>
    /\ backups = <<>>
    /\ applyIdx = 0
    /\ restoreIdx = 0
    /\ ioLog = <<>>
    /\ preBatch = NoSnapshot
    /\ modal = NoModal
    /\ scanSettings = DEFAULT_SETTINGS
    /\ preview = NoPreview
    /\ storage = "ready"
    /\ vaultNotice = NoVaultNotice

NextValue ==
    \/ \E f \in files : injectNamespace_read(f)
    \/ \E f \in files : injectNamespace_write(f)
    \/ processExistingFiles_start
    \/ processExistingFiles_analyze
    \/ BulkOperationModal_cancel
    \/ BulkOperationModal_confirm
    \/ createBackups
    \/ executeAtomicOperation_apply
    \/ restoreFromBackups

SpecValue == InitValue /\ [][NextValue]_vars

(***************************************************************************)
(* Properties                                                              *)
(***************************************************************************)
\* the text an injection into content c of file f is to produce
InjectedForm(f, c) ==
    <<"n", "a", "m", "e", "s", "p", "a", "c", "e", ":", ":", " ">>
    \o generateNamespace(f, settings) \o <<"\n", "\n">> \o c

\* the files of the plan, in plan order
PlannedFiles == [k \in 1..Len(plannedChanges) |-> plannedChanges[k].file]

\* C1: when a run whose apply phase failed after applyIdx successful writes
\* has ended (and nothing but the run wrote to the vault), each of the
\* applyIdx modified notes holds its pre-batch content again, and every note
\* holds its pre-batch content or its fully injected content.
C1_RollbackRestores ==
    (phase = "ROLLED_BACK" /\ ~Dirty) =>
        /\ \A k \in 1..applyIdx :
              vault[PlannedFiles[k]] = preBatch[PlannedFiles[k]]
        /\ \A f \in files :
              vault[f] \in {preBatch[f], InjectedForm(f, preBatch[f])}

\* C2: a confirmed run ends with every planned note holding its new content
\* or every planned note holding its original content.
C2_AllOrNothing ==
    (phase \in {"DONE", "ROLLED_BACK", "FAILED"} /\ ~Dirty) =>
        \/ \A k \in 1..Len(plannedChanges) :
              vault[PlannedFiles[k]] = plannedChanges[k].newContent
        \/ \A k \in 1..Len(plannedChanges) :
              vault[PlannedFiles[k]] = preBatch[PlannedFiles[k]]

IsBackupRead(e) == e.stage = "backup" /\ e.op = "read"
IsApplyWrite(e) == e.stage = "apply" /\ e.op = "write"

\* C3: when a write of the apply phase is issued, the backup read of every
\* planned note has completed, and no backup read follows a write.
C3_BackupsBeforeWrites ==
    \A i \in 1..Len(ioLog) :
        IsApplyWrite(ioLog[i]) =>
            /\ \A k \in 1..Len(plannedChanges) :
                  \E j \in 1..(i - 1) :
                      IsBackupRead(ioLog[j]) /\ ioLog[j].file = PlannedFiles[k]
            /\ \A j \in (i + 1)..Len(ioLog) : ~IsBackupRead(ioLog[j])

\* C3 happens: a run with two planned notes has issued a write
C3_Witness ==
    /\ Len(plannedChanges) = 2
    /\ \E i \in 1..Len(ioLog) : IsApplyWrite(ioLog[i])

(***************************************************************************)
(* Steps of the plugin, as seen from one state to the next                 *)
(***************************************************************************)
\* the analysis loop reads file f in this step
ScanReads(f) ==
    /\ phase = "SCANNING"
    /\ filesToProcess[scanIdx] = f
    /\ ioLog' # ioLog

\* the analysis loop plans a change for file f in this step
ScanPlans(f) ==
    /\ ScanReads(f)
    /\ Len(plannedChanges') = Len(plannedChanges) + 1

\* the apply loop writes file f in this step, and the write succeeds
ApplyWrote(f) ==
    /\ phase = "APPLYING"
    /\ PlannedFiles[applyIdx + 1] = f
    /\ ioLog' # ioLog
    /\ phase' # "ROLLING_BACK"

\* the injectNamespace call of file f runs up to its write in this step
InjectReads(f) == inj[f].pc = "timer" /\ inj'[f].pc # "timer"

\* the write of the injectNamespace call of file f succeeds in this step
InjectWrote(f) ==
    /\ inj[f].pc = "writing"
    /\ inj'[f].pc = "none"
    /\ lastOutcome' = Outcome(f, "done")

\* new is a namespace line and a blank line followed by exactly old
IsPrependOf(new, old) ==
    LET v == Len(new) - Len(old) - 14 IN
    /\ v >= 0
    /\ SubSeq(new, 1, 12)
          = <<"n", "a", "m", "e", "s", "p", "a", "c", "e", ":", ":", " ">>
    /\ \A k \in 13..(12 + v) : ~IsLineTerminator(new[k])
    /\ SubSeq(new, 13 + v, 14 + v) = <<"\n", "\n">>
    /\ SubSeq(new, 15 + v, Len(new)) = old

\* C4: every write that injects a namespace (apply write, single-note write)
\* leaves the note with the namespace line, a blank line and then exactly
\* the content the note held immediately before the write.
C4_NonDestructivePrepend ==
    [][\A f \in files :
          (ApplyWrote(f) \/ InjectWrote(f)) =>
              /\ IsPrependOf(vault'[f], vault[f])
              /\ Len(vault'[f]) >= Len(vault[f])]_vars

\* the plan a scan of vault v computes when no read fails
RECURSIVE analyzeAll(_, _, _, _)
analyzeAll(plan, todo, v, st) ==
    IF todo = <<>> THEN plan
    ELSE analyzeAll(analyzeFile(plan, Head(todo), v[Head(todo)], st),
                    Tail(todo), v, st)

SecondScan == analyzeAll(<<>>, getFilesToProcess(files, vault, settings),
                         vault, settings)

\* C5: when a batch run has completed (all writes done, or nothing to do)
\* and nothing but the run wrote to the vault, a scan of the resulting vault
\* with the same settings plans no change.
C5_SecondRunPlansNothing ==
    (phase \in {"DONE", "NO_CHANGES"} /\ ~Dirty) => SecondScan = <<>>

\* C5 happens: a run that wrote two notes is done
C5_Witness ==
    /\ phase = "DONE"
    /\ ~Dirty
    /\ Len(plannedChanges) = 2
    /\ \A k \in 1..2 : vault[PlannedFiles[k]] # preBatch[PlannedFiles[k]]

\* file f is (not) among the planned changes after the step
NotPlannedNext(f) ==
    \A k \in 1..Len(plannedChanges') : plannedChanges'[k].file # f

\* C6: a root-level note (empty parent-folder path) is never written: no
\* step of the plugin changes its content, plans a change for it or issues
\* a single-note write for it.
C6_RootNoteUntouched ==
    [][\A f \in files :
          parentPath(f) = <<>> =>
              /\ vault[f] # Absent => vault'[f] = vault[f]
              /\ NotPlannedNext(f)
              /\ inj'[f].pc # "writing"]_vars

\* C6 happens: the root note was created, its injection call has ended and
\* a batch run has written other notes
C6_Witness ==
    /\ \E f \in files : parentPath(f) = <<>> /\ lastOutcome = Outcome(f, "skipped")
    /\ phase = "DONE"

\* positions a..b of content are one whole line
IsLine(content, a, b) ==
    /\ a <= b + 1
    /\ IsLineStart(content, a)
    /\ b = Len(content) \/ IsLineTerminator(content[b + 1])
    /\ \A k \in a..b : ~IsLineTerminator(content[k])

\* some single line of content is: optional whitespace, namespace, optional
\* whitespace, ::, optional whitespace, a non-empty value
HasMarkerLine(content) ==
    \E a \in 1..Len(content) : \E b \in a..Len(content) :
        /\ IsLine(content, a, b)
        /\ \E q \in a..b : \E s \in (q + 9)..b : \E v \in (s + 2)..b :
            /\ AllWhitespace(content, a, q)
            /\ OccursAt(content, <<"n", "a", "m", "e", "s", "p", "a", "c", "e">>, q)
            /\ AllWhitespace(content, q + 9, s)
            /\ OccursAt(content, <<":", ":">>, s)
            /\ AllWhitespace(content, s + 2, v)

\* C7: a note whose content has a namespace marker line is left alone by
\* injection: the single-note call that reads it ends without a write, and
\* the scan that reads it plans nothing for it.
C7_MarkedNoteUntouched ==
    [][\A f \in files :
          /\ (InjectReads(f) /\ vault[f] # Absent /\ HasMarkerLine(vault[f])) =>
                /\ inj'[f].pc = "none"
                /\ lastOutcome'.outcome \in {"skipped", "threw"}
                /\ vault' = vault
          /\ (ScanReads(f) /\ vault[f] # Absent /\ HasMarkerLine(vault[f])) =>
                /\ plannedChanges' = plannedChanges
                /\ vault' = vault]_vars

\* C7 happens: a note with a marker line and a non-empty namespace value was
\* skipped by its single-note call and by a batch run that wrote another note
C7_Witness ==
    \E f \in files :
        /\ HasMarkerLine(vault[f])
        /\ generateNamespace(f, settings) # <<>>
        /\ lastOutcome = Outcome(f, "skipped")
        /\ phase = "DONE"
        /\ \E k \in 1..Len(filesToProcess) : filesToProcess[k] = f
        /\ \A k \in 1..Len(plannedChanges) : PlannedFiles[k] # f

\* the path of f contains templates/ in some letter case
InTemplates(f) ==
    LET lowered == toLowerCase(path(f)) IN
    \E k \in 1..Len(lowered) :
        OccursAt(lowered, <<"t", "e", "m", "p", "l", "a", "t", "e", "s", "/">>, k)

\* the exclude patterns of the settings hold templates/ (as by default)
TemplatesConfigured ==
    \E k \in 1..Len(settings.excludePatterns) :
        toLowerCase(settings.excludePatterns[k])
            = <<"t", "e", "m", "p", "l", "a", "t", "e", "s", "/">>

\* C8: a note whose path contains templates/ in any letter case is never
\* modified by the plugin: no step changes its content, plans a change for it
\* or issues a single-note write for it.
C8_TemplatesUntouched ==
    [][\A f \in files :
          (InTemplates(f) /\ TemplatesConfigured) =>
              /\ vault[f] # Absent => vault'[f] = vault[f]
              /\ NotPlannedNext(f)
              /\ inj'[f].pc # "writing"]_vars

\* C8 happens: a note without marker under Templates/ was created, its
\* injection call has ended and a batch run has written other notes
C8_Witness ==
    \E f \in files :
        /\ InTemplates(f)
        /\ ~hasNamespaceMetadata(vault[f])
        /\ lastOutcome = Outcome(f, "skipped")
        /\ phase = "DONE"

ExampleInjected ==
    <<"n", "a", "m", "e", "s", "p", "a", "c", "e", ":", ":", " ",
      "P", "r", "o", "j", "e", "c", "t", "s", "/",
      "M", "y", "P", "r", "o", "j", "e", "c", "t", "\n", "\n",
      "H", "e", "l", "l", "o">>

\* C9: the content planned by the scan and the content built by the
\* single-note call are both `namespace:: ` + the computed value + newline +
\* empty line + the content read, and that content is what is written; the
\* note Projects/MyProject/notes.md with format {path} and content Hello
\* gets namespace:: Projects/MyProject\n\nHello.
C9_InjectedContent ==
    [][\A f \in files :
          /\ ScanPlans(f) =>
                plannedChanges'[Len(plannedChanges')].newContent
                    = InjectedForm(f, vault[f])
          /\ (InjectReads(f) /\ inj'[f].pc = "writing") =>
                inj'[f].newContent = InjectedForm(f, vault[f])
          /\ ApplyWrote(f) => vault'[f] = plannedChanges[applyIdx + 1].newContent
          /\ InjectWrote(f) => vault'[f] = inj[f].newContent
          /\ (/\ f = "notes"
              /\ settings.namespaceFormat = <<"{", "p", "a", "t", "h", "}">>
              /\ vault[f] = <<"H", "e", "l", "l", "o">>)
             => /\ ScanPlans(f) =>
                      plannedChanges'[Len(plannedChanges')].newContent
                          = ExampleInjected
                /\ InjectReads(f) /\ inj'[f].pc = "writing" =>
                      inj'[f].newContent = ExampleInjected]_vars

\* C9 happens: the example note was injected by its single-note call and a
\* batch run then injected the other note
C9_Witness ==
    /\ vault["notes"] = ExampleInjected
    /\ lastOutcome = Outcome("notes", "done")
    /\ phase = "DONE"
    /\ PlannedFiles = <<"d">>
    /\ vault["d"] = plannedChanges[1].newContent

\* every occurrence of pat in s replaced by repl, repl taken literally
RECURSIVE replaceEvery(_, _, _)
replaceEvery(s, pat, repl) ==
    IF Len(s) = 0 THEN s
    ELSE IF OccursAt(s, pat, 1)
    THEN repl \o replaceEvery(SubSeq(s, Len(pat) + 1, Len(s)), pat, repl)
    ELSE <<s[1]>> \o replaceEvery(Tail(s), pat, repl)

\* the value C10 describes
DescribedNamespace(f, format) ==
    LET n1 == replaceEvery(format, <<"{", "p", "a", "t", "h", "}">>, parentPath(f))
        n2 == replaceEvery(n1, <<"{", "n", "a", "m", "e", "}">>, basename(f))
    IN replaceEdgeSlashes(replaceSlashRuns(n2))

\* C10: for a note with a non-empty parent folder, the value generateNamespace
\* returns is the format with {path} replaced by the folder path and {name}
\* by the base name, slashes collapsed and stripped, for every format.
C10_NamespaceValue ==
    \A f \in files :
        (parentPath(f) # <<>> /\ inj[f].pc = "writing") =>
            inj[f].namespace = DescribedNamespace(f, settings.namespaceFormat)

\* C11 as stated: the modal of the confirmation step shows the warning of a
\* large operation exactly when the scan found 101 or more eligible notes.
C11_WarningAtEligible ==
    modal.open => (modal.warning <=> Len(filesToProcess) >= 101)

\* C11 amended: the modal shows the warning exactly when the scan planned a
\* change for 101 or more notes, the count of notes the modal shows.
C11_WarningAtPlanned ==
    modal.open =>
        /\ modal.fileCount = Len(plannedChanges)
        /\ modal.warning <=> Len(plannedChanges) >= 101

\* C11 happens: the modal is open with the warning for exactly 101 planned
\* notes, one more than the largest plan without the warning
C11_Witness ==
    /\ modal.open
    /\ modal.warning
    /\ Len(plannedChanges) = 101
    /\ Len(filesToProcess) > 101

IsScanRead(e) == e.stage = "scan" /\ e.op = "read"

\* C12: once the user has cancelled the confirmation of a run, the run has
\* issued the reads of its scan and nothing else (no backup read, no write),
\* every note holds the content it had when the run started (nothing but
\* the run having written since), and a new run can be started.
C12_CancelNoSideEffects ==
    modal.closedBy = "cancel" =>
        /\ \A i \in 1..Len(ioLog) : IsScanRead(ioLog[i])
        /\ ~Dirty => vault = preBatch
        /\ backups = <<>>
        /\ ENABLED processExistingFiles_start

\* C12 happens: a run that planned two changes was cancelled
C12_Witness ==
    /\ modal.closedBy = "cancel"
    /\ phase = "CANCELLED"
    /\ Len(plannedChanges) = 2
    /\ ~Dirty

\* the number of changes a scan of the vault plans
PlannedCount ==
    Len(analyzeAll(<<>>, getFilesToProcess(files, vault, settings), vault,
                   settings))

\* C13: no step of previewChanges changes a note, whether its reads succeed
\* or one fails; the notice of a preview that planned n changes lists
\* min(10, n) example lines, and a count of n - 10 remaining files exactly
\* when n > 10.
C13_PreviewReadOnly ==
    [][preview' # preview =>
          /\ vault' = vault
          /\ preview'.notice.kind = "preview" =>
                LET n == PlannedCount IN
                /\ preview'.notice.count = n
                /\ Len(preview'.notice.lines) = (IF n < 10 THEN n ELSE 10)
                /\ preview'.notice.more = (IF n > 10 THEN n - 10 ELSE 0)
          /\ preview'.notice.kind = "empty" =>
                /\ PlannedCount = 0
                /\ preview'.notice.lines = <<>>]_vars

\* C13 happens: a preview of 12 planned changes has shown 10 lines and a
\* remainder of 2
C13_Witness ==
    /\ preview.pc = "idle"
    /\ preview.notice.kind = "preview"
    /\ preview.notice.count = 12
    /\ Len(preview.notice.lines) = 10
    /\ preview.notice.more = 2

\* a read of the backup phase has failed in this run
BackupReadFailed ==
    \E i \in 1..Len(ioLog) : IsBackupRead(ioLog[i]) /\ ~ioLog[i].ok

\* C14: when a read of the backup phase has failed, the run has ended
\* without having issued any write (no apply write, no restore write), and
\* every note holds the content it had when the run started (nothing but
\* the run having written since).
C14_BackupFailFast ==
    BackupReadFailed =>
        /\ phase = "FAILED"
        /\ \A i \in 1..Len(ioLog) : ioLog[i].op # "write"
        /\ ~Dirty => vault = preBatch

\* C14 happens: the second backup read of a run failed after the first one
\* had succeeded
C14_Witness ==
    /\ phase = "FAILED"
    /\ ~Dirty
    /\ \E i \in 1..Len(ioLog) : \E j \in 1..(i - 1) :
          /\ IsBackupRead(ioLog[i]) /\ ~ioLog[i].ok
          /\ IsBackupRead(ioLog[j]) /\ ioLog[j].ok

\* a read of the scan has failed in this run
ScanReadFailed ==
    \E i \in 1..Len(ioLog) : IsScanRead(ioLog[i]) /\ ~ioLog[i].ok

\* C15: when a read of the scan has failed, the run has ended in failure
\* with the failed read as its last host call: the confirmation modal was
\* not opened, no backup was read for the changes planned so far, and no
\* note was written.
C15_ScanFailFast ==
    ScanReadFailed =>
        /\ phase = "SCAN_FAILED"
        /\ ~ioLog[Len(ioLog)].ok
        /\ \A i \in 1..Len(ioLog) : IsScanRead(ioLog[i])
        /\ modal = NoModal
        /\ backups = <<>>
        /\ ~Dirty => vault = preBatch

\* C15 happens: a scan read failed after the scan had planned a change
C15_Witness ==
    /\ phase = "SCAN_FAILED"
    /\ ScanReadFailed
    /\ Len(plannedChanges) = 1
    /\ ~Dirty

\* the apply writes of the run, in the order in which they were issued
ApplyWrites == SelectSeq(ioLog, IsApplyWrite)

\* the files the scan of the run has read, in the order of its reads
ScannedFiles ==
    LET reads == SelectSeq(ioLog, IsScanRead)
    IN [k \in 1..Len(reads) |-> reads[k].file]

\* the position of file f in the scan of the run
ScanPosition(f) == CHOOSE a \in 1..Len(ScannedFiles) : ScannedFiles[a] = f

\* C16: the apply writes of a run are issued in the order in which the scan
\* enumerated (read) their notes, one note each, and a write is issued only
\* when every apply write issued before it has completed successfully.
C16_ApplyOrder ==
    \A j \in 1..Len(ApplyWrites) :
        /\ \E a \in 1..Len(ScannedFiles) : ScannedFiles[a] = ApplyWrites[j].file
        /\ \A i \in 1..(j - 1) :
              /\ ApplyWrites[i].ok
              /\ ScanPosition(ApplyWrites[i].file)
                    < ScanPosition(ApplyWrites[j].file)

\* C16 happens: a run has written three notes
C16_Witness ==
    /\ phase = "DONE"
    /\ Len(ApplyWrites) = 3
    /\ \A k \in 1..3 : ApplyWrites[k].ok

\* the apply loop completes a successful write in this step
ApplyWriteSucceeds ==
    /\ phase = "APPLYING"
    /\ ioLog' # ioLog
    /\ phase' # "ROLLING_BACK"

\* C17: with the batch size unchanged since the run started, the run pauses
\* after an apply write exactly when the number of that write, counted from
\* 1, is a multiple of batchSize.
C17_PauseEveryBatchSize ==
    [][(ApplyWriteSucceeds /\ settings.batchSize = scanSettings.batchSize) =>
          (phase' = "PAUSED" <=> (applyIdx + 1) % settings.batchSize = 0)]_vars

\* the plan of the run is the plan the settings at the start of the run give
PlanOfScanSettings ==
    \A k \in 1..Len(plannedChanges) :
        plannedChanges[k].newContent
            = plannedNewContent(generateNamespace(PlannedFiles[k], scanSettings),
                                preBatch[PlannedFiles[k]])

\* C18: a run whose plan was made with the settings of its start writes, at
\* every apply write, the content those settings give, and pauses where the
\* batchSize of those settings makes the apply loop pause, whatever the
\* settings have been changed to since.
C18_SettingsCaptured ==
    [][(ApplyWriteSucceeds /\ PlanOfScanSettings) =>
          LET f == PlannedFiles[applyIdx + 1] IN
          /\ vault'[f]
                = plannedNewContent(generateNamespace(f, scanSettings), preBatch[f])
          /\ phase' = "PAUSED" <=> applyPauses(applyIdx, scanSettings)]_vars

IsRestoreWrite(e) == e.stage = "restore" /\ e.op = "write"

\* the restore writes of the run, in the order in which they were issued
RestoreWrites == SelectSeq(ioLog, IsRestoreWrite)

\* an apply write of the run has failed
ApplyWriteFailed ==
    \E i \in 1..Len(ioLog) : IsApplyWrite(ioLog[i]) /\ ~ioLog[i].ok

\* C19: once an apply write has failed, the run is rolling back or rolled
\* back; the restore writes issued so far are for the first backups of the
\* run, one write each in backup order, whether they failed or not; there
\* is a backup for every planned note; and when the run has ended in
\* ROLLED_BACK a restore write has been issued for every backup.
C19_BestEffortRollback ==
    /\ ApplyWriteFailed =>
          /\ phase \in {"ROLLING_BACK", "ROLLED_BACK"}
          /\ Len(backups) = Len(plannedChanges)
    /\ Len(RestoreWrites) <= Len(backups)
    /\ \A k \in 1..Len(RestoreWrites) : RestoreWrites[k].file = backups[k].file
    /\ phase = "ROLLING_BACK" => Len(RestoreWrites) < Len(backups)
    /\ phase = "ROLLED_BACK" => Len(RestoreWrites) = Len(backups)

\* C19 happens: the first restore of a rollback failed, the two restores
\* after it were issued, the second restoring a note the run had modified
C19_Witness ==
    /\ phase = "ROLLED_BACK"
    /\ Len(RestoreWrites) = 3
    /\ ~RestoreWrites[1].ok
    /\ RestoreWrites[2].ok
    /\ vault[backups[1].file] # backups[1].originalContent
    /\ vault[backups[2].file] = backups[2].originalContent

\* no two writes of the same kind (apply, restore) of the run go to the same
\* note
NoWriteTwice ==
    \A i, j \in 1..Len(ioLog) :
        (/\ i < j
         /\ ioLog[i].op = "write"
         /\ ioLog[j].op = "write"
         /\ ioLog[i].stage = ioLog[j].stage)
        => ioLog[i].file # ioLog[j].file

\* C20: with every host call completing, a run in its apply phase reaches
\* DONE or ROLLED_BACK; within a run no note is written twice by the apply
\* loop nor twice by the rollback; and after a failed run nothing happens to
\* the run until the user starts processExistingFiles again.
C20_TerminatesWithoutRetry ==
    /\ (phase = "APPLYING") ~> (phase \in {"DONE", "ROLLED_BACK"})
    /\ []NoWriteTwice
    /\ [][(phase \in {"SCAN_FAILED", "FAILED", "ROLLED_BACK"}) =>
            (UNCHANGED batchVars \/ processExistingFiles_start)]_vars

\* C20 happens: a run of three writes has failed at its last write and was
\* rolled back
C20_Witness ==
    /\ phase = "ROLLED_BACK"
    /\ Len(ApplyWrites) = 3
    /\ Len(RestoreWrites) = 3

\* the host creates file f in this step (the 'create' notification)
Created(f) == vault[f] = Absent /\ vault'[f] # Absent

\* C21: on every creation notification a single-note injection is scheduled
\* exactly when the file is a markdown note and autoProcessNewFiles is on at
\* that time, whatever it was when the plugin loaded; nothing but a creation
\* schedules an injection; the injection does not run in the step of the
\* notification but later, and running it uses up what was scheduled.
C21_CreationHookGating ==
    [][\A f \in files :
          /\ Created(f) =>
                /\ inj'[f].pc = "timer" <=>
                      (extension(f) = MdExtension /\ settings.autoProcessNewFiles)
                /\ lastOutcome' = lastOutcome
          /\ (inj[f].pc # "timer" /\ inj'[f].pc = "timer") => Created(f)
          /\ InjectReads(f) => inj'[f].pc \in {"none", "writing"}]_vars

\* C22: while the vault or its adapter is unavailable, a processExistingFiles,
\* previewChanges or injectNamespace that begins returns in that same step:
\* no read and no write is issued (the vault, the run and the preview are
\* as they were, the single-note call has ended), and the notice of
\* validateVaultState has been shown for that operation.
C22_StorageNotReady ==
    [][storage # "ready" =>
          /\ processExistingFiles_start =>
                /\ UNCHANGED <<vault, batchVars, preBatch, preview, inj>>
                /\ vaultNotice'["processExistingFiles"] # "none"
          /\ previewChanges_start =>
                /\ UNCHANGED <<vault, batchVars, preBatch, preview, inj>>
                /\ vaultNotice'["previewChanges"] # "none"
          /\ \A f \in files : InjectReads(f) =>
                /\ UNCHANGED <<vault, batchVars, preBatch, preview>>
                /\ inj' = [inj EXCEPT ![f] = NoInjection]
                /\ lastOutcome' = Outcome(f, "notReady")
                /\ vaultNotice'["injectNamespace"] # "none"]_vars

\* C22 happens: each of the three operations was called while the storage
\* was unavailable, without a vault and without an adapter, and the vault
\* holds no injected note
C22_Witness ==
    /\ storage # "ready"
    /\ \A op \in Operations : vaultNotice[op] # "none"
    /\ \E op1, op2 \in Operations : vaultNotice[op1] # vaultNotice[op2]
    /\ lastOutcome.outcome = "notReady"
    /\ phase = "IDLE"
    /\ preview = NoPreview
    /\ \A f \in files : vault[f] \in {Hello, Absent}

\* the injectNamespace call of file f returns or throws in this step
InjectEnds(f) == inj[f].pc \in {"timer", "writing"} /\ inj'[f].pc = "none"

\* C23: a single-note injection never ends in a thrown failure: it ends as
\* done or as a skip, a failed read or write being a skip, and whenever it
\* does not end as done the content of the vault is as it was.
C23_SingleNoteFailureIsSkip ==
    [][\A f \in files :
          InjectEnds(f) =>
              /\ lastOutcome' \in {Outcome(f, "done"), Outcome(f, "skipped"),
                                   Outcome(f, "notReady")}
              /\ lastOutcome'.outcome # "done" => vault' = vault]_vars

\* C24: for every content the plugin reads, hasNamespaceMetadata is true
\* exactly when some single line of the content is: optional whitespace,
\* namespace::, and a non-empty value on that same line (a line namespace::
\* without a value is no marker, whatever the next line holds).
C24_MarkerDetection ==
    \A f \in files :
        vault[f] # Absent =>
            (hasNamespaceMetadata(vault[f]) <=> HasMarkerLine(vault[f]))

\* value has no leading slash, no trailing slash and no two slashes in a row
WellFormed(value) ==
    /\ Len(value) > 0 => (value[1] # "/" /\ value[Len(value)] # "/")
    /\ \A k \in 1..(Len(value) - 1) : ~(value[k] = "/" /\ value[k + 1] = "/")

\* C25: the value generateNamespace returns for a note, in whatever folder
\* and under whatever format, has no leading slash, no trailing slash and no
\* doubled slash, and so has the value a single-note call is about to write;
\* and the plugin changes the content of a note only when that value is not
\* empty.
C25_WellFormedValue ==
    /\ [](\A f \in files :
            /\ WellFormed(generateNamespace(f, settings))
            /\ inj[f].pc = "writing" =>
                  (WellFormed(inj[f].namespace) /\ inj[f].namespace # <<>>))
    /\ [][\A f \in files :
            vault'[f] # vault[f] => generateNamespace(f, settings) # <<>>]_vars

\* C25 happens: under a format that begins or ends with a slash, the value
\* of a note is not empty and its single-note call has written the note
C25_Witness ==
    \E f \in files :
        /\ settings.namespaceFormat[1] = "/"
           \/ settings.namespaceFormat[Len(settings.namespaceFormat)] = "/"
        /\ generateNamespace(f, settings) # <<>>
        /\ lastOutcome = Outcome(f, "done")
        /\ vault[f] = InjectedForm(f, Hello)

====
